---- MODULE Spec2Model ----
(***************************************************************************)
(* check_jitter: a one-shot monitoring plugin.  main parses and validates  *)
(* its arguments, get_jitter resolves the host, sends `samples` ICMP       *)
(* probes one at a time (sleeping between them), turns the round-trip      *)
(* times into deltas and aggregates them; main rounds the value, checks    *)
(* it against the thresholds, prints one line and exits.                   *)
(*                                                                         *)
(* Durations are whole nanoseconds, as in std::time::Duration.  A jitter   *)
(* value (an f64 number of milliseconds in the program) is an exact        *)
(* integer count of half-nanoseconds: every value the pipeline produces    *)
(* is a multiple of that unit.  Floating-point representation error is     *)
(* not modelled.                                                           *)
(***************************************************************************)
EXTENDS Integers, Sequences, FiniteSets, TLC

VARIABLES
    pc,             \* position of the single thread of control
    args,           \* the parsed command line (struct Args)
    thresholds,     \* Thresholds { warning, critical } built by main
    resolver_calls, \* how many times the DNS resolver was invoked
    ip,             \* the address get_durations picked, <<>> before that
    intervals,      \* run_samples: the interval Vec still to be consumed
    i,              \* run_samples: the loop variable of `for i in 0..samples`
    durations,      \* run_samples: the Vec of measured durations
    in_flight,      \* number of probes sent and not yet answered or failed
    asleep,         \* TRUE while thread::sleep is suspending the thread
    sent,           \* history: destination of every probe sent, in send order
    measured,       \* history: the round trip the clock measured for each answered probe
    sleeps,         \* history: every sleep, [after |-> probes sent so far, dur |-> ms]
    resolved,       \* history: the address list parse_addr returned
    answered,       \* history: the answers the system resolver gave default_resolver
    generated,      \* history: the interval sequence generate_intervals returned
    failed,         \* history: the ping errors the probes ended with
    result,         \* what get_jitter returned to main
    evaluated,      \* how many times evaluate_thresholds ran
    stdout,         \* the lines printed on standard output
    exit_code,      \* <<>> while running, <<code>> once the process has exited
    call            \* a direct call of one library function: its input and its result

vars == <<pc, args, thresholds, resolver_calls, ip, intervals, i, durations,
          in_flight, asleep, sent, measured, sleeps, resolved, answered, generated,
          failed, result, evaluated, stdout, exit_code, call>>

----------------------------------------------------------------------------
(* Bounds of the model.                                                    *)

MaxSamples == 4
MaxInterval == 1
RttShort == 3
RttLong == 10
WarnLimit == 5
CritLimit == 10
MaxLen == 4
MaxDuration == 3
MaxValue == 3
MaxCount == 3
MaxMillis == 2
MaxNanos == 40

(* Program constants.                                                      *)

MinSamples == 3
DefaultTimeout == 1000
NanosPerMilli == 1000000
HalfNsPerMs == 2000000

RttValues == {RttShort, RttLong}

----------------------------------------------------------------------------
(* Option<T> is a sequence of length at most one.                          *)

None == <<>>
Some(x) == <<x>>

----------------------------------------------------------------------------
(* enum AggregationMethod                                                  *)

AggregationMethod == {"Average", "Median", "Max", "Min"}

(* enum CheckJitterError: a variant, with its numeric or textual payload.  *)

NoError == [variant |-> "-", n |-> 0, s |-> "-"]
DnsLookupFailed(addr) == [variant |-> "DnsLookupFailed", n |-> 0, s |-> addr]
DnsResolutionError(addr) == [variant |-> "DnsResolutionError", n |-> 0, s |-> addr]
EmptyDeltas == [variant |-> "EmptyDeltas", n |-> 0, s |-> "-"]
InsufficientSamples(n) == [variant |-> "InsufficientSamples", n |-> n, s |-> "-"]
PermissionDenied == [variant |-> "PermissionDenied", n |-> 0, s |-> "-"]
PingError(e) == [variant |-> "PingError", n |-> 0, s |-> e]
PingIoError(kind) == [variant |-> "PingIoError", n |-> 0, s |-> kind]
Timeout(ms) == [variant |-> "Timeout", n |-> ms, s |-> "-"]

(* Result<T, CheckJitterError>, and the abnormal end of a computation.     *)

Ok(v) == [tag |-> "Ok", value |-> v, err |-> NoError]
Err(e) == [tag |-> "Err", value |-> 0, err |-> e]
OkSeq(s) == [tag |-> "Ok", value |-> s, err |-> NoError]
ErrSeq(e) == [tag |-> "Err", value |-> <<>>, err |-> e]
Panic == [tag |-> "Panic", value |-> 0, err |-> NoError]
Pending == [tag |-> "Pending", value |-> 0, err |-> NoError]

----------------------------------------------------------------------------
(* nagios_range::NagiosRange, by the range table of the help text:         *)
(* `10` alerts outside {0 .. 10}, `10:` below 10, `~:10` above 10,         *)
(* `10:20` outside {10 .. 20}, `@10:20` inside {10 .. 20}.                 *)

Range(inside, lo_inf, lo, hi_inf, hi) ==
    [inside |-> inside, lo_inf |-> lo_inf, lo |-> lo, hi_inf |-> hi_inf, hi |-> hi]

UpTo(n) == Range(FALSE, FALSE, 0, FALSE, n)
AtLeast(n) == Range(FALSE, FALSE, n, TRUE, 0)
AtMost(n) == Range(FALSE, TRUE, 0, FALSE, n)
Outside(n, m) == Range(FALSE, FALSE, n, FALSE, m)
Inside(n, m) == Range(TRUE, FALSE, n, FALSE, m)

RangeCheck(r, value) ==
    LET below == ~r.lo_inf /\ value < r.lo
        above == ~r.hi_inf /\ value > r.hi
    IN  IF r.inside THEN ~below /\ ~above ELSE below \/ above

(* struct Thresholds                                                       *)

Thresholds(w, c) == [warning |-> w, critical |-> c]

NoThresholdsYet == Thresholds(None, None)

----------------------------------------------------------------------------
(* enum Status, enum UnknownVariant                                        *)

NoVariant == [variant |-> "-", error |-> NoError]
UnknownError(e) == [variant |-> "Error", error |-> e]
UnknownPlain(v) == [variant |-> v, error |-> NoError]

StatusOk(m, v, t) ==
    [kind |-> "Ok", aggr_method |-> m, value |-> v, thresholds |-> t, unknown |-> NoVariant]
StatusWarning(m, v, t) ==
    [kind |-> "Warning", aggr_method |-> m, value |-> v, thresholds |-> t, unknown |-> NoVariant]
StatusCritical(m, v, t) ==
    [kind |-> "Critical", aggr_method |-> m, value |-> v, thresholds |-> t, unknown |-> NoVariant]
StatusUnknown(u) ==
    [kind |-> "Unknown", aggr_method |-> "-", value |-> 0, thresholds |-> NoThresholdsYet,
     unknown |-> u]

(* impl Display for Status.  A rendered line is the sequence of the pieces *)
(* the format string puts together: literal text, an f64 written by `{}`,  *)
(* or a threshold range written by its own Display.  Every `;` of a format *)
(* string is a piece of its own.  An Unknown line is its prefix and the    *)
(* name of the variant (the message text is not spelled out).              *)

NoRange == Range(FALSE, FALSE, 0, FALSE, 0)
Lit(text) == [t |-> "lit", s |-> text, n |-> 0, r |-> NoRange]
Num(f) == [t |-> "f64", s |-> "", n |-> f, r |-> NoRange]
Rng(range) == [t |-> "range", s |-> "", n |-> 0, r |-> range]

display_string_drops_empty_slot(label, status, uom, f, t) ==
    LET min == 0
        head == <<Lit(status), Lit(" - "), Lit(label), Lit(": "), Num(f), Lit(uom),
                  Lit("|'"), Lit(label), Lit("'="), Num(f), Lit(uom)>>
    IN  CASE t.warning # None /\ t.critical # None ->
                 head \o <<Lit(";"), Rng(t.warning[1]), Lit(";"), Rng(t.critical[1]),
                           Lit(";"), Num(min)>>
          [] t.warning # None /\ t.critical = None ->
                 head \o <<Lit(";"), Rng(t.warning[1]), Lit(";"), Num(min)>>
          [] t.warning = None /\ t.critical # None ->
                 head \o <<Lit(";"), Rng(t.critical[1]), Lit(";"), Num(min)>>
          [] t.warning = None /\ t.critical = None ->
                 head \o <<Lit(";"), Num(min)>>

display_string(label, status, uom, f, t) ==
    LET min == 0
        head == <<Lit(status), Lit(" - "), Lit(label), Lit(": "), Num(f), Lit(uom),
                  Lit("|'"), Lit(label), Lit("'="), Num(f), Lit(uom)>>
    IN  CASE t.warning # None /\ t.critical # None ->
                 head \o <<Lit(";"), Rng(t.warning[1]), Lit(";"), Rng(t.critical[1]),
                           Lit(";"), Num(min)>>
          [] t.warning # None /\ t.critical = None ->
                 head \o <<Lit(";"), Rng(t.warning[1]), Lit(";"), Lit(";"), Num(min)>>
          [] t.warning = None /\ t.critical # None ->
                 head \o <<Lit(";"), Lit(";"), Rng(t.critical[1]), Lit(";"), Num(min)>>
          [] t.warning = None /\ t.critical = None ->
                 head \o <<Lit(";"), Lit(";"), Lit(";"), Num(min)>>

fmt(status) ==
    LET uom == "ms"
        label == CASE status.kind = "Unknown" -> "Unknown"
                   [] status.aggr_method = "Average" -> "Average Jitter"
                   [] status.aggr_method = "Median" -> "Median Jitter"
                   [] status.aggr_method = "Max" -> "Max Jitter"
                   [] status.aggr_method = "Min" -> "Min Jitter"
    IN  CASE status.kind = "Ok" ->
                 display_string(label, "OK", uom, status.value, status.thresholds)
          [] status.kind = "Warning" ->
                 display_string(label, "WARNING", uom, status.value, status.thresholds)
          [] status.kind = "Critical" ->
                 display_string(label, "CRITICAL", uom, status.value, status.thresholds)
          [] status.kind = "Unknown" ->
                 <<Lit("UNKNOWN - "), Lit(status.unknown.variant)>>

(* Status::to_int                                                          *)

to_int_swapped(status) ==
    CASE status.kind = "Ok" -> 0
      [] status.kind = "Warning" -> 2
      [] status.kind = "Critical" -> 1
      [] status.kind = "Unknown" -> 3

to_int(status) ==
    CASE status.kind = "Ok" -> 0
      [] status.kind = "Warning" -> 1
      [] status.kind = "Critical" -> 2
      [] status.kind = "Unknown" -> 3

----------------------------------------------------------------------------
(* evaluate_thresholds: the critical range is looked at first.             *)

evaluate_thresholds_warning_first(aggr_method, value, t) ==
    IF t.warning # None /\ RangeCheck(t.warning[1], value)
    THEN StatusWarning(aggr_method, value, t)
    ELSE IF t.critical # None /\ RangeCheck(t.critical[1], value)
         THEN StatusCritical(aggr_method, value, t)
         ELSE StatusOk(aggr_method, value, t)

evaluate_thresholds(aggr_method, value, t) ==
    IF t.critical # None /\ RangeCheck(t.critical[1], value)
    THEN StatusCritical(aggr_method, value, t)
    ELSE IF t.warning # None /\ RangeCheck(t.warning[1], value)
         THEN StatusWarning(aggr_method, value, t)
         ELSE StatusOk(aggr_method, value, t)

----------------------------------------------------------------------------
(* abs_diff_duration, calculate_deltas                                     *)

abs_diff_duration(a, b) == IF a > b THEN a - b ELSE b - a

calculate_deltas_sorted(ds) ==
    LET sorted == SortSeq(ds, LAMBDA a, b: a < b)
    IN  IF Len(ds) < 2
        THEN ErrSeq(InsufficientSamples(Len(ds) % 256))
        ELSE OkSeq([k \in 1..(Len(ds) - 1) |-> abs_diff_duration(sorted[k], sorted[k + 1])])

calculate_deltas_unchecked(ds) ==
    OkSeq([k \in 1..(Len(ds) - 1) |-> abs_diff_duration(ds[k], ds[k + 1])])

calculate_deltas_one_pair_short(ds) ==
    IF Len(ds) < 2
    THEN ErrSeq(InsufficientSamples(Len(ds) % 256))
    ELSE OkSeq([k \in 1..(Len(ds) - 2) |-> abs_diff_duration(ds[k + 1], ds[k + 2])])

calculate_deltas(ds) ==
    IF Len(ds) < 2
    THEN ErrSeq(InsufficientSamples(Len(ds) % 256))
    ELSE OkSeq([k \in 1..(Len(ds) - 1) |-> abs_diff_duration(ds[k], ds[k + 1])])

----------------------------------------------------------------------------
(* The four aggregations.  A Duration of d nanoseconds becomes the f64     *)
(* d.as_secs_f64() * 1000.0, that is 2 * d half-nanoseconds.               *)

RECURSIVE SumSeq(_)
SumSeq(s) == IF s = <<>> THEN 0 ELSE Head(s) + SumSeq(Tail(s))

as_millis_f64(d) == 2 * d

Sorted(s) == SortSeq(s, LAMBDA a, b: a < b)

calculate_avg_jitter(deltas) ==
    IF Len(deltas) = 0
    THEN Panic
    ELSE Ok(as_millis_f64(SumSeq(deltas) \div Len(deltas)))

calculate_median_jitter_unsorted(deltas) ==
    LET sorted_deltas == deltas
        len == Len(sorted_deltas)
        mid == len \div 2
    IN  IF len = 0
        THEN Panic
        ELSE IF len % 2 = 0
             THEN Ok((as_millis_f64(sorted_deltas[mid])
                        + as_millis_f64(sorted_deltas[mid + 1])) \div 2)
             ELSE Ok(as_millis_f64(sorted_deltas[mid + 1]))

calculate_median_jitter(deltas) ==
    LET sorted_deltas == Sorted(deltas)
        len == Len(sorted_deltas)
        mid == len \div 2
    IN  IF len = 0
        THEN Panic
        ELSE IF len % 2 = 0
             THEN Ok((as_millis_f64(sorted_deltas[mid])
                        + as_millis_f64(sorted_deltas[mid + 1])) \div 2)
             ELSE Ok(as_millis_f64(sorted_deltas[mid + 1]))

calculate_max_jitter_last(deltas) ==
    IF Len(deltas) = 0
    THEN Err(EmptyDeltas)
    ELSE Ok(as_millis_f64(deltas[Len(deltas)]))

calculate_max_jitter(deltas) ==
    IF Len(deltas) = 0
    THEN Err(EmptyDeltas)
    ELSE Ok(as_millis_f64(CHOOSE d \in {deltas[k] : k \in 1..Len(deltas)} :
                            \A k \in 1..Len(deltas) : deltas[k] <= d))

calculate_min_jitter_first(deltas) ==
    IF Len(deltas) = 0
    THEN Err(EmptyDeltas)
    ELSE Ok(as_millis_f64(deltas[1]))

calculate_min_jitter(deltas) ==
    IF Len(deltas) = 0
    THEN Err(EmptyDeltas)
    ELSE Ok(as_millis_f64(CHOOSE d \in {deltas[k] : k \in 1..Len(deltas)} :
                            \A k \in 1..Len(deltas) : d <= deltas[k]))

(* round_jitter: (j * 10^precision).round() / 10^precision.  From seven    *)
(* decimals on, j * 10^precision is a whole number for every half-         *)
(* nanosecond value and rounding changes nothing.                          *)

RECURSIVE Pow10(_)
Pow10(p) == IF p = 0 THEN 1 ELSE 10 * Pow10(p - 1)

RoundHalfAway(n, g) ==
    IF n >= 0 THEN ((2 * n + g) \div (2 * g)) * g
              ELSE -(((2 * (-n) + g) \div (2 * g)) * g)

round_jitter(j, precision) ==
    IF precision >= 7 THEN j ELSE RoundHalfAway(j, HalfNsPerMs \div Pow10(precision))

----------------------------------------------------------------------------
(* f64 arithmetic as the processor does it (IEEE 754 binary64, round to    *)
(* nearest, ties to even), for the values that are zero or positive and    *)
(* neither subnormal nor infinite.  A float is m * 2^e with m a natural of *)
(* exactly MantissaBits bits (or 0); naturals of that size are sequences   *)
(* of limbs, least significant first, without leading zero limbs.          *)

LimbBits == 15
LimbBase == 32768
MantissaBits == 53

RECURSIVE Pow2(_)
Pow2(k) == IF k = 0 THEN 1 ELSE 2 * Pow2(k - 1)

RECURSIVE BitsOf(_)
BitsOf(n) == IF n = 0 THEN 0 ELSE 1 + BitsOf(n \div 2)

RECURSIVE BigTrim(_)
BigTrim(a) ==
    IF a # <<>> /\ a[Len(a)] = 0 THEN BigTrim(SubSeq(a, 1, Len(a) - 1)) ELSE a

RECURSIVE BigOf(_)
BigOf(n) == IF n = 0 THEN <<>> ELSE <<n % LimbBase>> \o BigOf(n \div LimbBase)

Limb(a, k) == IF k <= Len(a) THEN a[k] ELSE 0

RECURSIVE BigCmpFrom(_, _, _)
BigCmpFrom(a, b, k) ==
    IF k = 0 THEN 0
    ELSE IF Limb(a, k) > Limb(b, k) THEN 1
         ELSE IF Limb(a, k) < Limb(b, k) THEN -1
              ELSE BigCmpFrom(a, b, k - 1)

BigCmp(a, b) == BigCmpFrom(a, b, IF Len(a) > Len(b) THEN Len(a) ELSE Len(b))

RECURSIVE BigAddFrom(_, _, _, _)
BigAddFrom(a, b, k, carry) ==
    IF k > Len(a) /\ k > Len(b)
    THEN IF carry = 0 THEN <<>> ELSE <<carry>>
    ELSE LET t == Limb(a, k) + Limb(b, k) + carry
         IN  <<t % LimbBase>> \o BigAddFrom(a, b, k + 1, t \div LimbBase)

BigAdd(a, b) == BigAddFrom(a, b, 1, 0)

RECURSIVE BigSubFrom(_, _, _, _)
BigSubFrom(a, b, k, borrow) ==
    IF k > Len(a) THEN <<>>
    ELSE LET t == a[k] - Limb(b, k) - borrow
         IN  IF t < 0
             THEN <<t + LimbBase>> \o BigSubFrom(a, b, k + 1, 1)
             ELSE <<t>> \o BigSubFrom(a, b, k + 1, 0)

BigSub(a, b) == BigTrim(BigSubFrom(a, b, 1, 0))

RECURSIVE BigMulLimbFrom(_, _, _, _)
BigMulLimbFrom(a, d, k, carry) ==
    IF k > Len(a)
    THEN IF carry = 0 THEN <<>> ELSE <<carry>>
    ELSE LET t == a[k] * d + carry
         IN  <<t % LimbBase>> \o BigMulLimbFrom(a, d, k + 1, t \div LimbBase)

BigMulLimb(a, d) == BigTrim(BigMulLimbFrom(a, d, 1, 0))

BigShlLimbs(a, n) == IF a = <<>> THEN <<>> ELSE [k \in 1..n |-> 0] \o a

RECURSIVE BigMulFrom(_, _, _)
BigMulFrom(a, b, k) ==
    IF k > Len(b) THEN <<>>
    ELSE BigAdd(BigShlLimbs(BigMulLimb(a, b[k]), k - 1), BigMulFrom(a, b, k + 1))

BigMul(a, b) == BigMulFrom(a, b, 1)

BigShl(a, n) == BigShlLimbs(BigMulLimb(a, Pow2(n % LimbBits)), n \div LimbBits)

BigShr(a, n) ==
    LET d == n \div LimbBits
        r == n % LimbBits
        b == IF d >= Len(a) THEN <<>> ELSE SubSeq(a, d + 1, Len(a))
    IN  BigTrim([k \in 1..Len(b) |->
                    (b[k] \div Pow2(r)) + (Limb(b, k + 1) % Pow2(r)) * Pow2(LimbBits - r)])

BigBitLen(a) == IF a = <<>> THEN 0 ELSE LimbBits * (Len(a) - 1) + BitsOf(a[Len(a)])
BigBit(a, k) == (Limb(a, (k \div LimbBits) + 1) \div Pow2(k % LimbBits)) % 2
BigOdd(a) == a # <<>> /\ a[1] % 2 = 1

(* Long division, one bit of the dividend at a time from the top: the    *)
(* remainder is doubled, takes the next bit, and gives up the divisor     *)
(* when it holds it.  Each intermediate quotient and remainder is bound   *)
(* as a value before the next bit is brought down.                        *)
BigDivBit(prev, b, bit) ==
    LET r2 == BigAdd(BigAdd(prev.r, prev.r), BigOf(bit))
        q2 == BigAdd(prev.q, prev.q)
    IN  IF BigCmp(r2, b) >= 0
        THEN [q |-> BigAdd(q2, <<1>>), r |-> BigSub(r2, b)]
        ELSE [q |-> q2, r |-> BigTrim(r2)]

RECURSIVE BigDivLimb(_, _, _, _)
BigDivLimb(prev, b, limb, k) ==
    IF k >= LimbBits THEN prev
    ELSE CHOOSE next \in { BigDivBit(p, b, (limb \div Pow2(k)) % 2) :
                               p \in {BigDivLimb(prev, b, limb, k + 1)} } : TRUE

RECURSIVE BigDivModFrom(_, _, _)
BigDivModFrom(a, b, k) ==
    IF k > Len(a) THEN [q |-> <<>>, r |-> <<>>]
    ELSE CHOOSE next \in { BigDivLimb(p, b, a[k], 0) :
                               p \in {BigDivModFrom(a, b, k + 1)} } : TRUE

BigDivMod(a, b) == BigDivModFrom(a, b, 1)

F64(m, e) == [m |-> m, e |-> e]

(* The float nearest to (n + f) * 2^e, where 0 <= f < 1 and sticky tells   *)
(* whether f # 0; with sticky, n has more than MantissaBits + 1 bits.      *)
f64_nearest(n, e, sticky) ==
    LET len == BigBitLen(n)
        sh == len - MantissaBits
    IN  IF n = <<>> THEN F64(<<>>, 0)
        ELSE IF sh <= 0 THEN F64(BigShl(n, -sh), e + sh)
             ELSE LET q == BigShr(n, sh)
                      rem == BigSub(n, BigShl(q, sh))
                      c == BigCmp(rem, BigShl(<<1>>, sh - 1))
                      up == c > 0 \/ (c = 0 /\ (sticky \/ BigOdd(q)))
                      q2 == IF up THEN BigAdd(q, <<1>>) ELSE q
                  IN  IF BigBitLen(q2) > MantissaBits
                      THEN F64(BigShr(q2, 1), e + sh + 1)
                      ELSE F64(q2, e + sh)

f64_from(n) == f64_nearest(BigOf(n), 0, FALSE)
f64_mul(x, y) == f64_nearest(BigMul(x.m, y.m), x.e + y.e, FALSE)

f64_div(x, y) ==
    LET d == BigDivMod(BigShl(x.m, MantissaBits + 3), y.m)
    IN  f64_nearest(d.q, x.e - (MantissaBits + 3) - y.e, d.r # <<>>)

(* f64::round: to the nearest whole number, halves away from zero.         *)
f64_round(x) ==
    IF x.e >= 0 THEN x
    ELSE LET whole == BigShr(x.m, -x.e)
             rem == BigSub(x.m, BigShl(whole, -x.e))
             half == BigShl(<<1>>, (-x.e) - 1)
         IN  f64_nearest(IF BigCmp(rem, half) >= 0 THEN BigAdd(whole, <<1>>) ELSE whole,
                         0, FALSE)

(* f64::powi: the multiplications of the square-and-multiply loop.         *)
RECURSIVE powi_loop(_, _, _)
powi_loop(a, b, r) ==
    LET r2 == IF b % 2 = 1 THEN f64_mul(r, a) ELSE r
    IN  IF b \div 2 = 0 THEN r2 ELSE powi_loop(f64_mul(a, a), b \div 2, r2)

powi(x, n) == powi_loop(x, n, f64_from(1))

(* Duration::as_secs_f64() * 1_000.0 for a Duration below one second.      *)
as_secs_f64(nanos) == f64_div(f64_from(nanos), f64_from(1000000000))
millis_f64(nanos) == f64_mul(as_secs_f64(nanos), f64_from(1000))

(* round_jitter on f64 values, operation by operation.                     *)
round_jitter_f64(j, precision) ==
    LET factor == powi(f64_from(10), precision)
        rounded_jitter == f64_div(f64_round(f64_mul(j, factor)), factor)
    IN  rounded_jitter

----------------------------------------------------------------------------
(* Duration::from_millis and Duration::as_millis, on whole nanoseconds.    *)

from_millis(ms) == ms * NanosPerMilli
as_millis(d) == d \div NanosPerMilli

(* generate_intervals: every sequence the random draws can produce, each   *)
(* element a Duration in whole nanoseconds.                                *)

Draws(count, lo, hi) ==
    {[k \in 1..count |-> from_millis(f[k])] : f \in [1..count -> lo..hi]}

generate_intervals_fixed_one_short(count, min_interval, max_interval) ==
    IF min_interval > max_interval
    THEN {<<>>}
    ELSE IF max_interval = 0 /\ min_interval = 0
         THEN {<<>>}
         ELSE IF max_interval = min_interval
              THEN {[k \in 1..(count - 1) |-> from_millis(min_interval)]}
              ELSE Draws(count, min_interval, max_interval)

generate_intervals_swaps_bounds(count, min_interval, max_interval) ==
    IF min_interval > max_interval
    THEN Draws(count, max_interval, min_interval)
    ELSE IF max_interval = 0 /\ min_interval = 0
         THEN {<<>>}
         ELSE IF max_interval = min_interval
              THEN {[k \in 1..count |-> from_millis(min_interval)]}
              ELSE Draws(count, min_interval, max_interval)

generate_intervals_from_zero(count, min_interval, max_interval) ==
    IF min_interval > max_interval
    THEN {<<>>}
    ELSE IF max_interval = 0 /\ min_interval = 0
         THEN {<<>>}
         ELSE IF max_interval = min_interval
              THEN {[k \in 1..count |-> from_millis(min_interval)]}
              ELSE Draws(count, 0, max_interval)

generate_intervals_zero_is_fixed(count, min_interval, max_interval) ==
    IF min_interval > max_interval
    THEN {<<>>}
    ELSE IF max_interval = min_interval
         THEN {[k \in 1..count |-> from_millis(min_interval)]}
         ELSE Draws(count, min_interval, max_interval)

generate_intervals(count, min_interval, max_interval) ==
    IF min_interval > max_interval
    THEN {<<>>}
    ELSE IF max_interval = 0 /\ min_interval = 0
         THEN {<<>>}
         ELSE IF max_interval = min_interval
              THEN {[k \in 1..count |-> from_millis(min_interval)]}
              ELSE Draws(count, min_interval, max_interval)

----------------------------------------------------------------------------
(* The failures one probe can end with: ping::Error::IoError carrying an   *)
(* io::ErrorKind, or another ping::Error variant.                          *)

PingFailures ==
    {[io |-> TRUE, kind |-> "PermissionDenied"],
     [io |-> TRUE, kind |-> "WouldBlock"],
     [io |-> TRUE, kind |-> "ConnectionRefused"],
     [io |-> FALSE, kind |-> "DecodeV4Error"]}

(* Vec::push                                                               *)

push_front(vec, x) == <<x>> \o vec

push(vec, x) == Append(vec, x)

(* run_samples, the Err(e) arm of the match on the probe's result; the     *)
(* timeout is the Duration main built from the --timeout milliseconds.     *)

run_samples_err_no_timeout_arm(e, timeout) ==
    IF e.io
    THEN CASE e.kind = "PermissionDenied" -> PermissionDenied
           [] OTHER -> PingIoError(e.kind)
    ELSE PingError(e.kind)

run_samples_err(e, timeout) ==
    IF e.io
    THEN CASE e.kind = "PermissionDenied" -> PermissionDenied
           [] e.kind = "WouldBlock" -> Timeout(as_millis(timeout))
           [] OTHER -> PingIoError(e.kind)
    ELSE PingError(e.kind)

----------------------------------------------------------------------------
(* The command lines of the model.                                         *)

Ipv4Literals == {"192.168.1.1"}
Ipv6Literals == {"::1"}
DomainNames == {"multi.example.com"}
Hosts == Ipv4Literals \cup Ipv6Literals \cup DomainNames \cup {"not a host"}

GoodRange(r) == [valid |-> TRUE, range |-> r]
BadRange == [valid |-> FALSE, range |-> UpTo(0)]

WarningArgs == {None, Some(BadRange), Some(GoodRange(UpTo(WarnLimit)))}
CriticalArgs == {None, Some(BadRange), Some(GoodRange(UpTo(CritLimit)))}
PrecisionValues == {5, 6, 7}

Args ==
    [aggregation_method : AggregationMethod,
     critical : CriticalArgs,
     host : Hosts,
     min_interval : 0..MaxInterval,
     max_interval : 0..MaxInterval,
     precision : PrecisionValues,
     samples : MinSamples..MaxSamples,
     timeout : {DefaultTimeout},
     warning : WarningArgs]

NoArgs ==
    [aggregation_method |-> "Average", critical |-> None, host |-> "-",
     min_interval |-> 0, max_interval |-> 0, precision |-> 3, samples |-> 10,
     timeout |-> DefaultTimeout, warning |-> None]

NoCall == [fn |-> "-"]

(* What clap prints for --help and --version: a text that is no Status.    *)

ClapText(kind) ==
    [kind |-> kind, aggr_method |-> "-", value |-> 0, thresholds |-> NoThresholdsYet,
     unknown |-> NoVariant]

----------------------------------------------------------------------------
Unstarted ==
    /\ thresholds = NoThresholdsYet
    /\ resolver_calls = 0
    /\ ip = None
    /\ intervals = <<>>
    /\ i = 0
    /\ durations = <<>>
    /\ in_flight = 0
    /\ asleep = FALSE
    /\ sent = <<>>
    /\ measured = <<>>
    /\ sleeps = <<>>
    /\ resolved = <<>>
    /\ answered = <<>>
    /\ generated = <<>>
    /\ failed = <<>>
    /\ result = Pending
    /\ evaluated = 0
    /\ stdout = <<>>
    /\ exit_code = None

Idle ==
    /\ args = NoArgs
    /\ Unstarted

Init ==
    /\ pc = "main"
    /\ call = NoCall
    /\ Idle

pipeline == <<resolver_calls, ip, intervals, i, durations, in_flight, asleep,
              sent, measured, sleeps, resolved, answered, generated, failed, result>>

(* exit_with_message: print the status, exit with its code.                *)

exit_with_message(status) ==
    /\ stdout' = Append(stdout, status)
    /\ exit_code' = Some(to_int(status))
    /\ pc' = "exited"

(* main: Args::try_parse.  Help and version print clap's text and exit 3,  *)
(* any other parse failure is an Unknown status.                           *)

ParseArgs ==
    /\ pc = "main"
    /\ \/ \E kind \in {"DisplayHelp", "DisplayVersion"} :
            /\ stdout' = Append(stdout, ClapText(kind))
            /\ exit_code' = Some(3)
            /\ pc' = "exited"
            /\ UNCHANGED args
       \/ /\ exit_with_message(StatusUnknown(UnknownPlain("ClapError")))
          /\ UNCHANGED args
       \/ \E a \in Args :
            /\ args' = a
            /\ pc' = "init_logger"
            /\ UNCHANGED <<stdout, exit_code>>
    /\ UNCHANGED <<thresholds, pipeline, evaluated, call>>

InitLogger ==
    /\ pc = "init_logger"
    /\ \/ exit_with_message(StatusUnknown(UnknownPlain("FailedToInitLogger")))
       \/ /\ pc' = "check_interval"
          /\ UNCHANGED <<stdout, exit_code>>
    /\ UNCHANGED <<args, thresholds, pipeline, evaluated, call>>

(* A main without the interval check.                                      *)
CheckMinMaxLetsThrough ==
    /\ pc = "check_interval"
    /\ pc' = "validate_host"
    /\ UNCHANGED <<stdout, exit_code>>
    /\ UNCHANGED <<args, thresholds, pipeline, evaluated, call>>

(* main: min_interval above max_interval is refused.                       *)
CheckMinMax ==
    /\ pc = "check_interval"
    /\ IF args.min_interval > args.max_interval
       THEN exit_with_message(StatusUnknown(UnknownPlain("InvalidMinMaxInterval")))
       ELSE /\ pc' = "validate_host"
            /\ UNCHANGED <<stdout, exit_code>>
    /\ UNCHANGED <<args, thresholds, pipeline, evaluated, call>>

validate_host(s) ==
    IF s \in Ipv4Literals \/ s \in Ipv6Literals \/ s \in DomainNames
    THEN OkSeq(s)
    ELSE ErrSeq([variant |-> "InvalidIP", n |-> 0, s |-> s])

ValidateHost ==
    /\ pc = "validate_host"
    /\ IF validate_host(args.host).tag = "Err"
       THEN exit_with_message(StatusUnknown(UnknownPlain("InvalidAddr")))
       ELSE /\ pc' = "check_thresholds"
            /\ UNCHANGED <<stdout, exit_code>>
    /\ UNCHANGED <<args, thresholds, pipeline, evaluated, call>>

CheckThresholds ==
    /\ pc = "check_thresholds"
    /\ IF args.warning = None /\ args.critical = None
       THEN exit_with_message(StatusUnknown(UnknownPlain("NoThresholds")))
       ELSE /\ pc' = "parse_warning"
            /\ UNCHANGED <<stdout, exit_code>>
    /\ UNCHANGED <<args, thresholds, pipeline, evaluated, call>>

(* ThresholdRange::from on an optional argument.                           *)

parse_range(arg) ==
    IF arg = None THEN OkSeq(None)
    ELSE IF arg[1].valid THEN OkSeq(Some(arg[1].range))
         ELSE ErrSeq([variant |-> "RangeParseError", n |-> 0, s |-> "-"])

ParseWarning ==
    /\ pc = "parse_warning"
    /\ IF parse_range(args.warning).tag = "Err"
       THEN /\ exit_with_message(StatusUnknown(UnknownPlain("RangeParseError")))
            /\ UNCHANGED thresholds
       ELSE /\ thresholds' = [thresholds EXCEPT !.warning = parse_range(args.warning).value]
            /\ pc' = "parse_critical"
            /\ UNCHANGED <<stdout, exit_code>>
    /\ UNCHANGED <<args, pipeline, evaluated, call>>

ParseCritical ==
    /\ pc = "parse_critical"
    /\ IF parse_range(args.critical).tag = "Err"
       THEN /\ exit_with_message(StatusUnknown(UnknownPlain("RangeParseError")))
            /\ UNCHANGED thresholds
       ELSE /\ thresholds' = [thresholds EXCEPT !.critical = parse_range(args.critical).value]
            /\ pc' = "get_jitter"
            /\ UNCHANGED <<stdout, exit_code>>
    /\ UNCHANGED <<args, pipeline, evaluated, call>>

----------------------------------------------------------------------------
(* Address resolution.  `answer` is what to_socket_addrs gives for a name: *)
(* a list of addresses (possibly empty) or an error.                       *)

SocketAddrsAnswers ==
    {OkSeq(<<>>),
     OkSeq(<<"192.0.2.1">>),
     OkSeq(<<"192.0.2.1", "192.0.2.2", "192.0.2.3">>),
     ErrSeq([variant |-> "io::Error", n |-> 0, s |-> "-"])}

default_resolver_one_error(addr, answer) ==
    IF answer.tag = "Ok"
    THEN IF answer.value = <<>> THEN ErrSeq(DnsResolutionError(addr)) ELSE OkSeq(answer.value)
    ELSE ErrSeq(DnsResolutionError(addr))

default_resolver(addr, answer) ==
    IF answer.tag = "Ok"
    THEN IF answer.value = <<>> THEN ErrSeq(DnsLookupFailed(addr)) ELSE OkSeq(answer.value)
    ELSE ErrSeq(DnsResolutionError(addr))

(* parse_addr_with_resolver: `asked` tells whether the resolver was called. *)

Lookup(r, asked) == [tag |-> r.tag, value |-> r.value, err |-> r.err, asked |-> asked]

parse_addr_with_resolver_always_asks(addr, answer) ==
    Lookup(default_resolver(addr, answer), TRUE)

parse_addr_with_resolver(addr, answer) ==
    IF addr \in Ipv4Literals THEN Lookup(OkSeq(<<addr>>), FALSE)
    ELSE IF addr \in Ipv6Literals THEN Lookup(OkSeq(<<addr>>), FALSE)
         ELSE Lookup(default_resolver(addr, answer), TRUE)

(* get_durations, up to the address: parse_addr(addr)?.first()             *)

last(list) == IF list = <<>> THEN None ELSE Some(list[Len(list)])

first(list) == IF list = <<>> THEN None ELSE Some(Head(list))

ResolveAddr ==
    /\ pc = "get_jitter"
    /\ \E answer \in SocketAddrsAnswers :
         LET r == parse_addr_with_resolver(args.host, answer)
         IN  /\ resolver_calls' = IF r.asked THEN resolver_calls + 1 ELSE resolver_calls
             /\ answered' = IF r.asked THEN Append(answered, answer) ELSE answered
             /\ IF r.tag = "Err"
                THEN /\ result' = Err(r.err)
                     /\ pc' = "main_result"
                     /\ UNCHANGED <<ip, resolved>>
                ELSE IF r.value = <<>>
                     THEN /\ result' = Err(DnsLookupFailed(args.host))
                          /\ pc' = "main_result"
                          /\ resolved' = r.value
                          /\ UNCHANGED ip
                     ELSE /\ ip' = first(r.value)
                          /\ resolved' = r.value
                          /\ pc' = "get_durations"
                          /\ UNCHANGED result
    /\ UNCHANGED <<args, thresholds, intervals, i, durations, in_flight, asleep,
                   sent, measured, sleeps, evaluated, stdout, exit_code,
                   generated, failed, call>>

(* get_durations, from the sample-count check to the call of run_samples. *)

StartSamplingOneIntervalPerProbe ==
    /\ pc = "get_durations"
    /\ IF args.samples < 2
       THEN /\ result' = Err(InsufficientSamples(args.samples))
            /\ pc' = "main_result"
            /\ UNCHANGED <<intervals, generated, i, durations>>
       ELSE /\ intervals' \in generate_intervals(args.samples, args.min_interval,
                                                 args.max_interval)
            /\ generated' = intervals'
            /\ durations' = <<>>
            /\ i' = 0
            /\ pc' = "loop"
            /\ UNCHANGED result
    /\ UNCHANGED <<args, thresholds, resolver_calls, ip, in_flight, asleep, sent,
                   measured, sleeps, resolved, answered, failed, evaluated, stdout, exit_code,
                   call>>

StartSamplingCountsFromOne ==
    /\ pc = "get_durations"
    /\ IF args.samples < 1
       THEN /\ result' = Err(InsufficientSamples(args.samples))
            /\ pc' = "main_result"
            /\ UNCHANGED <<intervals, generated, i, durations>>
       ELSE /\ intervals' \in generate_intervals(args.samples - 1, args.min_interval,
                                                 args.max_interval)
            /\ generated' = intervals'
            /\ durations' = <<>>
            /\ i' = 0
            /\ pc' = "loop"
            /\ UNCHANGED result
    /\ UNCHANGED <<args, thresholds, resolver_calls, ip, in_flight, asleep, sent,
                   measured, sleeps, resolved, answered, failed, evaluated, stdout, exit_code,
                   call>>

StartSampling ==
    /\ pc = "get_durations"
    /\ IF args.samples < 2
       THEN /\ result' = Err(InsufficientSamples(args.samples))
            /\ pc' = "main_result"
            /\ UNCHANGED <<intervals, generated, i, durations>>
       ELSE /\ intervals' \in generate_intervals(args.samples - 1, args.min_interval,
                                                 args.max_interval)
            /\ generated' = intervals'
            /\ durations' = <<>>
            /\ i' = 0
            /\ pc' = "loop"
            /\ UNCHANGED result
    /\ UNCHANGED <<args, thresholds, resolver_calls, ip, in_flight, asleep, sent,
                   measured, sleeps, resolved, answered, failed, evaluated, stdout, exit_code,
                   call>>

----------------------------------------------------------------------------
(* run_samples: `for i in 0..samples`, one blocking ping per round.        *)

ProbeSendWhileAsleep ==
    /\ pc \in {"loop", "sleep"}
    /\ i < args.samples
    /\ in_flight' = in_flight + 1
    /\ sent' = Append(sent, ip[1])
    /\ pc' = "ping"
    /\ UNCHANGED <<args, thresholds, resolver_calls, ip, intervals, i, durations,
                   asleep, measured, sleeps, resolved, answered, result, evaluated, stdout,
                   exit_code, generated, failed, call>>

ProbeSend ==
    /\ pc = "loop"
    /\ i < args.samples
    /\ in_flight' = in_flight + 1
    /\ sent' = Append(sent, ip[1])
    /\ pc' = "ping"
    /\ UNCHANGED <<args, thresholds, resolver_calls, ip, intervals, i, durations,
                   asleep, measured, sleeps, resolved, answered, result, evaluated, stdout,
                   exit_code,
                   generated, failed, call>>

(* Ok(_): push the elapsed time, then pop one interval and sleep for it.   *)

ProbeOk ==
    /\ pc = "ping"
    /\ \E duration \in RttValues :
         /\ measured' = Append(measured, duration)
         /\ durations' = push(durations, duration)
    /\ in_flight' = in_flight - 1
    /\ IF intervals # <<>>
       THEN /\ intervals' = SubSeq(intervals, 1, Len(intervals) - 1)
            /\ sleeps' = Append(sleeps, [after |-> Len(sent),
                                         dur |-> intervals[Len(intervals)]])
            /\ asleep' = TRUE
            /\ pc' = "sleep"
            /\ UNCHANGED i
       ELSE /\ i' = i + 1
            /\ pc' = "loop"
            /\ UNCHANGED <<intervals, sleeps, asleep>>
    /\ UNCHANGED <<args, thresholds, resolver_calls, ip, sent, resolved, answered, result,
                   evaluated, stdout, exit_code,
                   generated, failed, call>>

SleepEnd ==
    /\ pc = "sleep"
    /\ asleep' = FALSE
    /\ i' = i + 1
    /\ pc' = "loop"
    /\ UNCHANGED <<args, thresholds, resolver_calls, ip, intervals, durations,
                   in_flight, sent, measured, sleeps, resolved, answered, result, evaluated,
                   stdout, exit_code,
                   generated, failed, call>>

(* Err(e): return at once; the Vec of durations is dropped.                *)

ProbeErrSkipsSample ==
    /\ pc = "ping"
    /\ \E e \in PingFailures :
         failed' = Append(failed, e)
    /\ in_flight' = in_flight - 1
    /\ i' = i + 1
    /\ pc' = "loop"
    /\ UNCHANGED <<args, thresholds, resolver_calls, ip, intervals, durations, asleep,
                   sent, measured, sleeps, resolved, answered, generated, result, evaluated,
                   stdout, exit_code, call>>

ProbeErr ==
    /\ pc = "ping"
    /\ \E e \in PingFailures :
         /\ failed' = Append(failed, e)
         /\ result' = Err(run_samples_err(e, from_millis(args.timeout)))
    /\ in_flight' = in_flight - 1
    /\ durations' = <<>>
    /\ pc' = "main_result"
    /\ UNCHANGED <<args, thresholds, resolver_calls, ip, intervals, i, asleep, sent,
                   measured, sleeps, resolved, answered, generated, evaluated, stdout,
                   exit_code, call>>

(* get_jitter after get_durations: the deltas, then the aggregation.       *)

aggregate(aggr_method, ds) ==
    LET deltas == calculate_deltas(ds)
    IN  IF deltas.tag = "Err"
        THEN Err(deltas.err)
        ELSE CASE aggr_method = "Average" -> calculate_avg_jitter(deltas.value)
               [] aggr_method = "Median" -> calculate_median_jitter(deltas.value)
               [] aggr_method = "Max" -> calculate_max_jitter(deltas.value)
               [] aggr_method = "Min" -> calculate_min_jitter(deltas.value)

(* The loop is over: run_samples returns Ok(durations) and get_jitter      *)
(* finishes.                                                               *)

RunSamplesReturn ==
    /\ pc = "loop"
    /\ i >= args.samples
    /\ result' = aggregate(args.aggregation_method, durations)
    /\ pc' = "main_result"
    /\ UNCHANGED <<args, thresholds, resolver_calls, ip, intervals, i, durations,
                   in_flight, asleep, sent, measured, sleeps, resolved, answered, evaluated,
                   stdout, exit_code,
                   generated, failed, call>>

(* main: the match on get_jitter's result, and the final exit.  A panic    *)
(* ends the process with code 101 and prints nothing on standard output.   *)

MainResultEvaluatesErrors ==
    /\ pc = "main_result"
    /\ IF result.tag = "Panic"
       THEN /\ exit_code' = Some(101)
            /\ pc' = "exited"
            /\ UNCHANGED <<stdout, evaluated>>
       ELSE /\ exit_with_message(
                   evaluate_thresholds(args.aggregation_method,
                                       round_jitter(result.value, args.precision),
                                       thresholds))
            /\ evaluated' = evaluated + 1
    /\ UNCHANGED <<args, thresholds, pipeline, call>>

MainResultRoundsAfterEvaluation ==
    /\ pc = "main_result"
    /\ IF result.tag = "Err"
       THEN /\ exit_with_message(StatusUnknown(UnknownError(result.err)))
            /\ UNCHANGED evaluated
       ELSE IF result.tag = "Panic"
            THEN /\ exit_code' = Some(101)
                 /\ pc' = "exited"
                 /\ UNCHANGED <<stdout, evaluated>>
            ELSE /\ exit_with_message(
                        [evaluate_thresholds(args.aggregation_method, result.value,
                                             thresholds)
                            EXCEPT !.value = round_jitter(result.value, args.precision)])
                 /\ evaluated' = evaluated + 1
    /\ UNCHANGED <<args, thresholds, pipeline, call>>

MainResult ==
    /\ pc = "main_result"
    /\ IF result.tag = "Err"
       THEN /\ exit_with_message(StatusUnknown(UnknownError(result.err)))
            /\ UNCHANGED evaluated
       ELSE IF result.tag = "Panic"
            THEN /\ exit_code' = Some(101)
                 /\ pc' = "exited"
                 /\ UNCHANGED <<stdout, evaluated>>
            ELSE /\ exit_with_message(
                        evaluate_thresholds(args.aggregation_method,
                                            round_jitter(result.value, args.precision),
                                            thresholds))
                 /\ evaluated' = evaluated + 1
    /\ UNCHANGED <<args, thresholds, pipeline, call>>

Next ==
    \/ ParseArgs
    \/ InitLogger
    \/ CheckMinMax
    \/ ValidateHost
    \/ CheckThresholds
    \/ ParseWarning
    \/ ParseCritical
    \/ ResolveAddr
    \/ StartSampling
    \/ ProbeSend
    \/ ProbeOk
    \/ ProbeErr
    \/ SleepEnd
    \/ RunSamplesReturn
    \/ MainResult

Spec == Init /\ [][Next]_vars

----------------------------------------------------------------------------
(* get_jitter called as a library function: any sample count that fits a   *)
(* u8, any address text, any pair of intervals; nothing of main runs.      *)
(* pc = "main_result" is the return to the caller, with result the value   *)
(* returned.                                                               *)

GetJitterArgs ==
    {[NoArgs EXCEPT !.aggregation_method = m, !.host = h, !.samples = n,
                    !.min_interval = lo, !.max_interval = hi] :
        m \in AggregationMethod, h \in Hosts, n \in 0..MaxSamples,
        lo \in 0..MaxInterval, hi \in 0..MaxInterval}

InitGetJitter ==
    /\ pc = "get_jitter"
    /\ call = NoCall
    /\ args \in GetJitterArgs
    /\ Unstarted

NextGetJitter ==
    \/ ResolveAddr
    \/ StartSampling
    \/ ProbeSend
    \/ ProbeOk
    \/ ProbeErr
    \/ SleepEnd
    \/ RunSamplesReturn

SpecGetJitter == InitGetJitter /\ [][NextGetJitter]_vars

----------------------------------------------------------------------------
(* The library's public and internal functions called directly, on every   *)
(* input of a bounded set: `call` holds the arguments, then the result.    *)

SampleValues == 0..MaxDuration
SampleSeqs == UNION {[1..n -> SampleValues] : n \in 0..MaxLen}

JitterValues == (-1)..MaxValue
Ranges ==
    {UpTo(n) : n \in 0..MaxValue}
        \cup {AtLeast(n) : n \in 0..MaxValue}
        \cup {AtMost(n) : n \in 0..MaxValue}
        \cup {r \in {Outside(n, m) : n, m \in 0..MaxValue} : r.lo <= r.hi}
        \cup {r \in {Inside(n, m) : n, m \in 0..MaxValue} : r.lo <= r.hi}
OptRanges == {None} \cup {Some(r) : r \in Ranges}

AggregationFns ==
    {"calculate_avg_jitter", "calculate_median_jitter",
     "calculate_max_jitter", "calculate_min_jitter"}

NoStatus == ClapText("-")

Status(kind, m, v, t) ==
    CASE kind = "Ok" -> StatusOk(m, v, t)
      [] kind = "Warning" -> StatusWarning(m, v, t)
      [] kind = "Critical" -> StatusCritical(m, v, t)
      [] kind = "Unknown" -> StatusUnknown(UnknownPlain("NoThresholds"))

PendingSeq == [tag |-> "Pending", value |-> <<>>, err |-> NoError]

InitLib ==
    /\ pc = "lib"
    /\ Idle
    /\ \/ \E ds \in SampleSeqs :
            call = [fn |-> "calculate_deltas", durations |-> ds, ret |-> PendingSeq]
       \/ \E m \in AggregationMethod, v \in JitterValues, w \in OptRanges, c \in OptRanges :
            call = [fn |-> "evaluate_thresholds", aggr_method |-> m, value |-> v,
                    thresholds |-> Thresholds(w, c), ret |-> NoStatus]
       \/ \E kind \in {"Ok", "Warning", "Critical", "Unknown"}, m \in AggregationMethod,
             v \in JitterValues, w \in OptRanges, c \in OptRanges :
            call = [fn |-> "fmt", status |-> Status(kind, m, v, Thresholds(w, c)),
                    ret |-> <<>>]
       \/ \E f \in AggregationFns, ds \in SampleSeqs :
            call = [fn |-> f, deltas |-> ds, ret |-> Pending]
       \/ \E n \in 0..MaxCount, lo \in 0..MaxMillis, hi \in 0..MaxMillis :
            call = [fn |-> "generate_intervals", count |-> n, min_interval |-> lo,
                    max_interval |-> hi, ret |-> PendingSeq]

program == <<pc, args, thresholds, pipeline, evaluated, stdout, exit_code>>

CallCalculateDeltas ==
    /\ call.fn = "calculate_deltas"
    /\ call.ret.tag = "Pending"
    /\ call' = [call EXCEPT !.ret = calculate_deltas(call.durations)]
    /\ UNCHANGED program

CallEvaluateThresholds ==
    /\ call.fn = "evaluate_thresholds"
    /\ call.ret = NoStatus
    /\ call' = [call EXCEPT !.ret = evaluate_thresholds(call.aggr_method, call.value,
                                                        call.thresholds)]
    /\ UNCHANGED program

CallCalculateAvgJitter ==
    /\ call.fn = "calculate_avg_jitter"
    /\ call.ret.tag = "Pending"
    /\ call' = [call EXCEPT !.ret = calculate_avg_jitter(call.deltas)]
    /\ UNCHANGED program

CallCalculateMedianJitter ==
    /\ call.fn = "calculate_median_jitter"
    /\ call.ret.tag = "Pending"
    /\ call' = [call EXCEPT !.ret = calculate_median_jitter(call.deltas)]
    /\ UNCHANGED program

CallCalculateMaxJitter ==
    /\ call.fn = "calculate_max_jitter"
    /\ call.ret.tag = "Pending"
    /\ call' = [call EXCEPT !.ret = calculate_max_jitter(call.deltas)]
    /\ UNCHANGED program

CallCalculateMinJitter ==
    /\ call.fn = "calculate_min_jitter"
    /\ call.ret.tag = "Pending"
    /\ call' = [call EXCEPT !.ret = calculate_min_jitter(call.deltas)]
    /\ UNCHANGED program

(* generate_intervals returns a Vec, not a Result: a returned vector is    *)
(* recorded as OkSeq.                                                      *)

CallGenerateIntervals ==
    /\ call.fn = "generate_intervals"
    /\ call.ret.tag = "Pending"
    /\ \E v \in generate_intervals(call.count, call.min_interval, call.max_interval) :
         call' = [call EXCEPT !.ret = OkSeq(v)]
    /\ UNCHANGED program

CallFmt ==
    /\ call.fn = "fmt"
    /\ call.ret = <<>>
    /\ call' = [call EXCEPT !.ret = fmt(call.status)]
    /\ UNCHANGED program

NextLib ==
    \/ CallFmt
    \/ CallCalculateDeltas
    \/ CallEvaluateThresholds
    \/ CallCalculateAvgJitter
    \/ CallCalculateMedianJitter
    \/ CallCalculateMaxJitter
    \/ CallCalculateMinJitter
    \/ CallGenerateIntervals

SpecLib == InitLib /\ [][NextLib]_vars

----------------------------------------------------------------------------
(* round_jitter called on the f64 of a jitter of whole nanoseconds, and    *)
(* then on its own result.                                                 *)

FloatPrecisions == {3, 20}

InitFloat ==
    /\ pc = "lib"
    /\ Idle
    /\ \E nanos \in 0..MaxNanos, precision \in FloatPrecisions :
         call = [fn |-> "round_jitter", nanos |-> nanos, j |-> millis_f64(nanos),
                 precision |-> precision, ret |-> None, again |-> None]

CallRoundJitter ==
    /\ call.fn = "round_jitter"
    /\ call.ret = None
    /\ call' = [call EXCEPT !.ret = Some(round_jitter_f64(call.j, call.precision))]
    /\ UNCHANGED program

CallRoundJitterAgain ==
    /\ call.fn = "round_jitter"
    /\ call.ret # None
    /\ call.again = None
    /\ call' = [call EXCEPT !.again = Some(round_jitter_f64(call.ret[1], call.precision))]
    /\ UNCHANGED program

NextFloat ==
    \/ CallRoundJitter
    \/ CallRoundJitterAgain

SpecFloat == InitFloat /\ [][NextFloat]_vars

----------------------------------------------------------------------------
(* Properties.                                                             *)

Abs(x) == IF x < 0 THEN -x ELSE x
Reverse(s) == [k \in 1..Len(s) |-> s[Len(s) + 1 - k]]
SleepDurations == [k \in 1..Len(sleeps) |-> sleeps[k].dur]
Exited == exit_code # None
Alerts(range, value) == range # None /\ RangeCheck(range[1], value)

\* C1: evaluate_thresholds returns Critical exactly when the critical range is
\* present and alerts on the value, otherwise Warning exactly when the warning
\* range is present and alerts, otherwise Ok; a value breaching both is Critical.
C1_CriticalFirst ==
    (call.fn = "evaluate_thresholds" /\ call.ret # NoStatus) =>
        LET crit == Alerts(call.thresholds.critical, call.value)
            warn == Alerts(call.thresholds.warning, call.value)
        IN  /\ call.ret.kind \in {"Ok", "Warning", "Critical"}
            /\ (call.ret.kind = "Critical") <=> crit
            /\ (call.ret.kind = "Warning") <=> (~crit /\ warn)
            /\ (call.ret.kind = "Ok") <=> (~crit /\ ~warn)
            /\ (crit /\ warn) => call.ret.kind = "Critical"

C1_BothBreached ==
    /\ call.fn = "evaluate_thresholds"
    /\ call.ret # NoStatus
    /\ Alerts(call.thresholds.critical, call.value)
    /\ Alerts(call.thresholds.warning, call.value)
    /\ call.ret.kind = "Critical"

\* C2: a process that has exited printed exactly one line and exited with the
\* code of that line: 0 for Ok, 1 for Warning, 2 for Critical, 3 for Unknown
\* and for clap's help and version texts; no other exit code occurs.
C2_ExitCodeOfStatus ==
    Exited =>
        /\ Len(stdout) = 1
        /\ exit_code[1] \in 0..3
        /\ stdout[1].kind = "Ok" => exit_code[1] = 0
        /\ stdout[1].kind = "Warning" => exit_code[1] = 1
        /\ stdout[1].kind = "Critical" => exit_code[1] = 2
        /\ stdout[1].kind \in {"Unknown", "DisplayHelp", "DisplayVersion"} => exit_code[1] = 3
        /\ stdout[1].kind \in {"Ok", "Warning", "Critical", "Unknown", "DisplayHelp",
                               "DisplayVersion"}

C2_WarningExit ==
    /\ Exited
    /\ stdout[1].kind = "Warning"
    /\ exit_code = Some(1)

\* C3: when get_jitter returns an error the process prints exactly one line, the
\* Unknown status carrying that error, exits with code 3, never evaluates the
\* thresholds, and no computation of the run panics.
C3_FailureIsUnknown ==
    /\ result.tag # "Panic"
    /\ result.tag = "Err" => evaluated = 0
    /\ (result.tag = "Err" /\ Exited) =>
           /\ stdout = <<StatusUnknown(UnknownError(result.err))>>
           /\ exit_code = Some(3)

C3_ProbeFailureExit ==
    /\ Exited
    /\ result.tag = "Err"
    /\ Len(durations) = 0
    /\ Len(measured) >= 2

\* C4: while run_samples runs its Vec holds, in send order, exactly the round
\* trips measured so far, and when it returns Ok it has sent `samples` probes
\* and returns `samples` durations, the i-th being the i-th probe's.
C4_OneDurationPerProbe ==
    /\ pc \in {"loop", "ping", "sleep"} => durations = measured
    /\ pc = "ping" => Len(sent) = Len(measured) + 1
    /\ pc \in {"loop", "sleep"} => Len(sent) = Len(measured)
    /\ result.tag = "Ok" =>
           /\ Len(sent) = args.samples
           /\ Len(durations) = args.samples
           /\ durations = measured

C4_AllProbesAnswered ==
    /\ result.tag = "Ok"
    /\ Len(durations) = args.samples
    /\ durations[1] # durations[2]

\* C5: the step in which a probe fails ends the sample run with an error that
\* carries no sample, and from then on no probe is sent, nothing sleeps, no
\* further probe fails (no retry), the error stays the result and the line
\* printed is an Unknown status.
C5_FirstFailureAborts ==
    [][/\ failed' # failed =>
              /\ Len(failed') = 1
              /\ sent' = sent
              /\ sleeps' = sleeps
              /\ ~asleep'
              /\ in_flight' = 0
              /\ result'.tag = "Err"
              /\ result'.value = 0
              /\ durations' = <<>>
       /\ failed # <<>> =>
              /\ failed' = failed
              /\ sent' = sent
              /\ measured' = measured
              /\ sleeps' = sleeps
              /\ ~asleep'
              /\ in_flight' = 0
              /\ result' = result
              /\ durations' = <<>>
              /\ Len(stdout') = 1 => stdout'[1].kind = "Unknown"]_vars

C5_FailedAfterSamples ==
    /\ failed # <<>>
    /\ Len(measured) >= 1
    /\ Exited

\* C6: a failed probe is reported by its cause: WouldBlock (the timeout ran
\* out) as Timeout carrying the --timeout milliseconds, a PermissionDenied I/O
\* error as PermissionDenied, any other I/O error as PingIoError, any other
\* ping error as PingError wrapping it; the result is one of these four.
C6_FailureClassified ==
    \A k \in 1..Len(failed) :
        LET e == failed[k]
        IN  /\ result.tag = "Err"
            /\ result.err.variant \in {"Timeout", "PermissionDenied", "PingIoError", "PingError"}
            /\ (e.io /\ e.kind = "WouldBlock") => result.err = Timeout(args.timeout)
            /\ (e.io /\ e.kind = "PermissionDenied") => result.err = PermissionDenied
            /\ (e.io /\ e.kind \notin {"WouldBlock", "PermissionDenied"}) =>
                   result.err = PingIoError(e.kind)
            /\ ~e.io => result.err = PingError(e.kind)

C6_TimedOut ==
    /\ failed = <<[io |-> TRUE, kind |-> "WouldBlock"]>>
    /\ result = Err(Timeout(DefaultTimeout))

\* C7: at most one probe is outstanding, none while the thread sleeps, and a
\* probe is sent only when every earlier probe has been answered and the
\* sleep that followed it is over.
C7_StrictlySequential ==
    [][/\ in_flight \in {0, 1}
       /\ asleep => in_flight = 0
       /\ sent' # sent =>
              /\ in_flight = 0
              /\ ~asleep
              /\ Len(measured) = Len(sent)
              /\ Len(sleeps) \in {0, Len(sent)}
              /\ in_flight' = 1]_vars

C7_SecondProbeAfterSleep ==
    /\ pc = "ping"
    /\ Len(sent) = 2
    /\ Len(sleeps) = 1
    /\ in_flight = 1

\* C8: the k-th sleep comes after the k-th probe was answered and before probe
\* k+1 is sent; each sleep consumes one generated interval (last generated
\* first) and none is used twice; a non-empty interval sequence has samples-1
\* values, so a successful run sleeps samples-1 times, never before the first
\* probe and never after the last.
C8_SleepsBetweenProbes ==
    /\ \A k \in 1..Len(sleeps) : sleeps[k].after = k /\ sleeps[k].after < args.samples
    /\ generated = intervals \o Reverse(SleepDurations)
    /\ generated # <<>> => Len(generated) = args.samples - 1
    /\ asleep => Len(sleeps) = Len(measured) /\ Len(sent) = Len(measured)
    /\ (result.tag = "Ok" /\ generated # <<>>) => Len(sleeps) = args.samples - 1

C8_SleptBetweenAll ==
    /\ result.tag = "Ok"
    /\ Len(sleeps) = args.samples - 1
    /\ Len(sleeps) >= 2
    /\ sleeps[1].dur # sleeps[2].dur

\* C9: for n >= 2 samples calculate_deltas returns n-1 deltas, the k-th being
\* |S[k+1] - S[k]| in the samples' own order; a delta is never negative, is
\* the same for (a, b) and (b, a), and is 0 for equal samples.
C9_AdjacentAbsoluteDeltas ==
    /\ (call.fn = "calculate_deltas" /\ call.ret.tag # "Pending"
            /\ Len(call.durations) >= 2) =>
           /\ call.ret.tag = "Ok"
           /\ Len(call.ret.value) = Len(call.durations) - 1
           /\ \A k \in 1..(Len(call.durations) - 1) :
                  /\ call.ret.value[k] = Abs(call.durations[k + 1] - call.durations[k])
                  /\ call.ret.value[k] >= 0
    /\ \A a, b \in SampleValues :
           /\ abs_diff_duration(a, b) = abs_diff_duration(b, a)
           /\ abs_diff_duration(a, b) = Abs(a - b)
           /\ abs_diff_duration(a, a) = 0

C9_UnsortedSamples ==
    /\ call.fn = "calculate_deltas"
    /\ call.ret.tag = "Ok"
    /\ Len(call.durations) >= 3
    /\ call.durations[2] > call.durations[1]
    /\ call.durations[2] > call.durations[3]
    /\ call.durations[1] # call.durations[3]

\* C10: calculate_deltas on 0 or 1 samples returns the error
\* InsufficientSamples carrying the number of samples, never Ok.
C10_TooFewSamples ==
    (call.fn = "calculate_deltas" /\ call.ret.tag # "Pending"
         /\ Len(call.durations) < 2) =>
        call.ret = ErrSeq(InsufficientSamples(Len(call.durations)))

C10_OneSample ==
    /\ call.fn = "calculate_deltas"
    /\ Len(call.durations) = 1
    /\ call.ret = ErrSeq(InsufficientSamples(1))

----------------------------------------------------------------------------
(* Aggregations, called directly with every list of deltas.                *)

Elements(s) == {s[k] : k \in 1..Len(s)}
Below(s, x) == Cardinality({k \in 1..Len(s) : s[k] < x})
NotAbove(s, x) == Cardinality({k \in 1..Len(s) : s[k] <= x})

(* The k-th smallest element of s, found by counting, without sorting.     *)
Kth(s, k) == CHOOSE x \in Elements(s) : Below(s, x) < k /\ k <= NotAbove(s, x)

Returned == call.ret.tag # "Pending"

\* C11: for every non-empty list of deltas, Average is the arithmetic mean of
\* the deltas in milliseconds: the result times the number of deltas is the
\* sum of the deltas.
C11_ExactMean ==
    (call.fn = "calculate_avg_jitter" /\ Returned /\ call.deltas # <<>>) =>
        /\ call.ret.tag = "Ok"
        /\ call.ret.value * Len(call.deltas) = as_millis_f64(SumSeq(call.deltas))

(* What calculate_avg_jitter returns instead: the Duration division drops  *)
(* the remainder, so the result is a whole number q of nanoseconds with    *)
(* q * count <= sum < (q + 1) * count.                                     *)
C11_TruncatedMean ==
    (call.fn = "calculate_avg_jitter" /\ Returned /\ call.deltas # <<>>) =>
        LET n == Len(call.deltas)
            sum == SumSeq(call.deltas)
        IN  /\ call.ret.tag = "Ok"
            /\ \E q \in 0..sum :
                   /\ call.ret.value = as_millis_f64(q)
                   /\ q * n <= sum
                   /\ sum < (q + 1) * n

C11_RemainderDropped ==
    /\ call.fn = "calculate_avg_jitter"
    /\ call.ret.tag = "Ok"
    /\ Len(call.deltas) = 2
    /\ SumSeq(call.deltas) = 3
    /\ call.ret.value = as_millis_f64(1)

\* C12: Median is taken on a sorted copy of the deltas: for an odd number of
\* deltas it is the central element in sorted order, for an even number it is
\* the mean of the two central elements in sorted order, in milliseconds.
C12_MedianOfSorted ==
    (call.fn = "calculate_median_jitter" /\ Returned /\ call.deltas # <<>>) =>
        LET n == Len(call.deltas)
        IN  /\ call.ret.tag = "Ok"
            /\ IF n % 2 = 1
               THEN call.ret.value = as_millis_f64(Kth(call.deltas, (n + 1) \div 2))
               ELSE 2 * call.ret.value
                        = as_millis_f64(Kth(call.deltas, n \div 2))
                            + as_millis_f64(Kth(call.deltas, (n \div 2) + 1))

C12_EvenUnsorted ==
    /\ call.fn = "calculate_median_jitter"
    /\ call.ret.tag = "Ok"
    /\ Len(call.deltas) = 4
    /\ Kth(call.deltas, 2) # Kth(call.deltas, 3)
    /\ {call.deltas[2], call.deltas[3]} # {Kth(call.deltas, 2), Kth(call.deltas, 3)}
    /\ 2 * call.ret.value # as_millis_f64(call.deltas[2]) + as_millis_f64(call.deltas[3])

\* C13: Max returns the largest delta and Min the smallest delta of a
\* non-empty list, in milliseconds; on an empty list each fails with
\* EmptyDeltas.
C13_MaxMinOrEmptyDeltas ==
    /\ (call.fn = "calculate_max_jitter" /\ Returned) =>
           IF call.deltas = <<>>
           THEN call.ret = Err(EmptyDeltas)
           ELSE /\ call.ret.tag = "Ok"
                /\ \E k \in 1..Len(call.deltas) :
                       /\ call.ret.value = as_millis_f64(call.deltas[k])
                       /\ \A j \in 1..Len(call.deltas) : call.deltas[j] <= call.deltas[k]
    /\ (call.fn = "calculate_min_jitter" /\ Returned) =>
           IF call.deltas = <<>>
           THEN call.ret = Err(EmptyDeltas)
           ELSE /\ call.ret.tag = "Ok"
                /\ \E k \in 1..Len(call.deltas) :
                       /\ call.ret.value = as_millis_f64(call.deltas[k])
                       /\ \A j \in 1..Len(call.deltas) : call.deltas[k] <= call.deltas[j]

C13_MaxInTheMiddle ==
    /\ call.fn = "calculate_max_jitter"
    /\ call.ret.tag = "Ok"
    /\ Len(call.deltas) = 3
    /\ call.deltas[2] > call.deltas[1]
    /\ call.deltas[1] > call.deltas[3]
    /\ call.ret.value = as_millis_f64(call.deltas[2])

----------------------------------------------------------------------------
(* generate_intervals, called directly with every count and every pair of  *)
(* bounds.                                                                 *)

Generated == call.fn = "generate_intervals" /\ Returned

\* C14: for every count n and every value v other than 0,
\* generate_intervals(n, v, v) returns a sequence of length n in which every
\* element equals v milliseconds; for v = 0 it returns the empty sequence
\* whatever n is.
C14_FixedNonZero ==
    (Generated /\ call.min_interval = call.max_interval) =>
        IF call.min_interval = 0
        THEN call.ret.value = <<>>
        ELSE /\ Len(call.ret.value) = call.count
             /\ \A k \in 1..Len(call.ret.value) :
                    call.ret.value[k] = call.min_interval * NanosPerMilli

(* The statement for every value v, 0 included.                            *)
C14_FixedAnyValue ==
    (Generated /\ call.min_interval = call.max_interval) =>
        /\ Len(call.ret.value) = call.count
        /\ \A k \in 1..Len(call.ret.value) :
               call.ret.value[k] = call.min_interval * NanosPerMilli

C14_ThreeCopies ==
    /\ Generated
    /\ call.count = 3
    /\ call.min_interval = 2
    /\ call.max_interval = 2
    /\ call.ret.value = <<2 * NanosPerMilli, 2 * NanosPerMilli, 2 * NanosPerMilli>>

\* C15: for every count, generate_intervals with min > max returns the empty
\* sequence: the call has exactly that one outcome, so it returns and neither
\* panics nor loops.
C15_MinAboveMaxIsEmpty ==
    (call.fn = "generate_intervals" /\ call.min_interval > call.max_interval) =>
        /\ generate_intervals(call.count, call.min_interval, call.max_interval) = {<<>>}
        /\ Returned => call.ret = OkSeq(<<>>)

C15_ThreeAskedNoneMade ==
    /\ Generated
    /\ call.count = 3
    /\ call.min_interval = 2
    /\ call.max_interval = 1
    /\ call.ret = OkSeq(<<>>)

----------------------------------------------------------------------------
(* The sample run without intervals, and the resolution of the host.       *)

IpLiterals == Ipv4Literals \cup Ipv6Literals

(* parse_addr has returned to get_durations.                               *)
PastResolve ==
    \/ pc \in {"get_durations", "loop", "ping", "sleep", "main_result"}
    \/ pc = "exited" /\ result # Pending

\* C17: generate_intervals(count, 0, 0) is the empty sequence for every
\* count, and a run with min = max = 0 is given no interval and never sleeps:
\* after each reply the loop is at once ready for the next probe, and a run
\* that ends Ok has sent all `samples` probes.
C17_ZeroIntervalsNoSleep ==
    /\ \A count \in 0..MaxCount : generate_intervals(count, 0, 0) = {<<>>}
    /\ (args.min_interval = 0 /\ args.max_interval = 0) =>
           /\ generated = <<>>
           /\ intervals = <<>>
           /\ sleeps = <<>>
           /\ ~asleep
           /\ pc # "sleep"
           /\ pc = "loop" => i = Len(measured) /\ Len(sent) = Len(measured)
           /\ result.tag = "Ok" =>
                  /\ Len(sent) = args.samples
                  /\ Len(measured) = args.samples

C17_AllSentNoneSlept ==
    /\ args.min_interval = 0
    /\ args.max_interval = 0
    /\ args.samples = 4
    /\ result.tag = "Ok"
    /\ Len(sent) = 4
    /\ sleeps = <<>>

\* C18: for a host that is a literal IPv4 or IPv6 address the resolver is
\* never invoked and the address list is that address itself; the resolver is
\* invoked only for hosts that are not literals, once per run.
C18_LiteralsSkipResolver ==
    /\ args.host \in IpLiterals =>
           /\ resolver_calls = 0
           /\ answered = <<>>
           /\ PastResolve => resolved = <<args.host>> /\ ip = Some(args.host)
    /\ resolver_calls > 0 => args.host \notin IpLiterals
    /\ (PastResolve /\ args.host \notin IpLiterals) => resolver_calls = 1

C18_LiteralProbed ==
    /\ args.host = "::1"
    /\ result.tag = "Ok"
    /\ resolver_calls = 0
    /\ Len(sent) = args.samples
    /\ \A k \in 1..Len(sent) : sent[k] = "::1"

\* C19: the address probed is the first of the list the lookup returned: every
\* probe of the run goes to that first address, and no other address of the
\* list is ever probed.
C19_FirstAddressProbed ==
    /\ ip # None => resolved # <<>> /\ ip = Some(resolved[1])
    /\ (answered # <<>> /\ PastResolve /\ answered[1].tag = "Ok") =>
           resolved = answered[1].value
    /\ sent # <<>> =>
           /\ resolved # <<>>
           /\ \A k \in 1..Len(sent) : sent[k] = resolved[1]
           /\ \A k \in 2..Len(resolved) : \A j \in 1..Len(sent) : sent[j] # resolved[k]

C19_SeveralAddressesOneProbed ==
    /\ answered # <<>>
    /\ answered[1].tag = "Ok"
    /\ Len(answered[1].value) = 3
    /\ result.tag = "Ok"
    /\ Len(sent) = args.samples
    /\ \A k \in 1..Len(sent) : sent[k] = answered[1].value[1]

\* C20: a lookup that yields no address makes get_jitter return
\* DnsLookupFailed, a lookup whose call fails makes it return
\* DnsResolutionError; main prints that very error as an Unknown status, and
\* after either failure no probe is sent.
C20_ResolutionFailureIsFinal ==
    \A k \in 1..Len(answered) :
        (answered[k].tag = "Err" \/ answered[k].value = <<>>) =>
            /\ result = Err(IF answered[k].tag = "Err"
                            THEN DnsResolutionError(args.host)
                            ELSE DnsLookupFailed(args.host))
            /\ ip = None
            /\ sent = <<>>
            /\ measured = <<>>
            /\ sleeps = <<>>
            /\ in_flight = 0
            /\ pc \in {"main_result", "exited"}
            /\ Exited =>
                   /\ stdout = <<StatusUnknown(UnknownError(result.err))>>
                   /\ exit_code = Some(3)

C20_NoRecordsNoProbe ==
    /\ answered = <<OkSeq(<<>>)>>
    /\ Exited
    /\ stdout = <<StatusUnknown(UnknownError(DnsLookupFailed(args.host)))>>
    /\ sent = <<>>

----------------------------------------------------------------------------
(* The rendered line of a status.                                          *)

Severity(kind) ==
    CASE kind = "Ok" -> "OK"
      [] kind = "Warning" -> "WARNING"
      [] kind = "Critical" -> "CRITICAL"

MethodJitter(m) ==
    CASE m = "Average" -> "Average Jitter"
      [] m = "Median" -> "Median Jitter"
      [] m = "Max" -> "Max Jitter"
      [] m = "Min" -> "Min Jitter"

Slot(threshold) == IF threshold = None THEN <<>> ELSE <<Rng(threshold[1])>>

Semicolons(line) == {k \in 1..Len(line) : line[k] = Lit(";")}

\* C21: the line of an Ok, Warning or Critical status is
\* SEVERITY - Label: value ms |' Label '= value ms ; warning ; critical ; 0
\* with Label the method's "<Method> Jitter" in both places, the status's
\* value in both places, an absent threshold leaving its slot empty, exactly
\* three semicolons, and 0 as the last field.
C21_ReportLine ==
    (call.fn = "fmt" /\ call.ret # <<>> /\ call.status.kind # "Unknown") =>
        LET line == call.ret
            st == call.status
        IN  /\ Len(line) >= 15
            /\ SubSeq(line, 1, 11)
                   = <<Lit(Severity(st.kind)), Lit(" - "), Lit(MethodJitter(st.aggr_method)),
                       Lit(": "), Num(st.value), Lit("ms"), Lit("|'"),
                       Lit(MethodJitter(st.aggr_method)), Lit("'="), Num(st.value),
                       Lit("ms")>>
            /\ SubSeq(line, 12, Len(line))
                   = <<Lit(";")>> \o Slot(st.thresholds.warning) \o <<Lit(";")>>
                         \o Slot(st.thresholds.critical) \o <<Lit(";"), Num(0)>>
            /\ Cardinality(Semicolons(line)) = 3
            /\ line[Len(line)] = Num(0)

C21_WarningWithoutCritical ==
    /\ call.fn = "fmt"
    /\ call.status = StatusWarning("Median", 2, Thresholds(Some(UpTo(1)), None))
    /\ call.ret = <<Lit("WARNING"), Lit(" - "), Lit("Median Jitter"), Lit(": "), Num(2),
                    Lit("ms"), Lit("|'"), Lit("Median Jitter"), Lit("'="), Num(2),
                    Lit("ms"), Lit(";"), Rng(UpTo(1)), Lit(";"), Lit(";"), Num(0)>>

----------------------------------------------------------------------------
(* The report of a run that measured a jitter.                             *)

\* C22: the status main prints for a measured jitter carries the rounded
\* jitter, the aggregation method and the thresholds of the run, and its
\* severity is the classification of that rounded value: the value printed is
\* the value that was checked against the ranges.
C22_PrintedValueIsCheckedValue ==
    (Exited /\ result.tag = "Ok") =>
        LET st == stdout[1]
            crit == Alerts(thresholds.critical, st.value)
            warn == Alerts(thresholds.warning, st.value)
        IN  /\ st.value = round_jitter(result.value, args.precision)
            /\ st.aggr_method = args.aggregation_method
            /\ st.thresholds = thresholds
            /\ (st.kind = "Critical") <=> crit
            /\ (st.kind = "Warning") <=> (~crit /\ warn)
            /\ (st.kind = "Ok") <=> (~crit /\ ~warn)

C22_RoundingChangesSeverity ==
    /\ Exited
    /\ result.tag = "Ok"
    /\ stdout[1].kind = "Ok"
    /\ stdout[1].value # result.value
    /\ Alerts(thresholds.warning, result.value)
    /\ ~Alerts(thresholds.warning, stdout[1].value)

----------------------------------------------------------------------------
(* round_jitter applied twice.                                             *)

\* C23: round_jitter is idempotent: for every value j and precision p,
\* round_jitter(round_jitter(j, p), p) = round_jitter(j, p).
C23_Idempotent ==
    (call.fn = "round_jitter" /\ call.again # None) => call.again = call.ret

C23_RoundedTwiceAtDefaultPrecision ==
    /\ call.fn = "round_jitter"
    /\ call.precision = 3
    /\ call.nanos = 33
    /\ call.again # None
    /\ call.again = call.ret

----------------------------------------------------------------------------
(* Configurations refused before sampling.                                 *)

\* C24: with min_interval above max_interval the run never gets past main's
\* interval check: the check prints Unknown (invalid min/max interval) and
\* exits with code 3, and up to then and ever after no address has been
\* resolved, no interval drawn and no probe sent.
C24_MinAboveMaxRejected ==
    /\ [](args.min_interval > args.max_interval =>
              /\ pc \in {"init_logger", "check_interval", "exited"}
              /\ resolver_calls = 0
              /\ resolved = <<>>
              /\ answered = <<>>
              /\ generated = <<>>
              /\ sent = <<>>
              /\ result = Pending
              /\ Exited => exit_code = Some(3))
    /\ [][(pc = "check_interval" /\ args.min_interval > args.max_interval) =>
              /\ pc' = "exited"
              /\ stdout' = <<StatusUnknown(UnknownPlain("InvalidMinMaxInterval"))>>
              /\ exit_code' = Some(3)]_vars

C24_RejectedUnprobed ==
    /\ args.min_interval > args.max_interval
    /\ args.host \in DomainNames
    /\ Exited
    /\ stdout = <<StatusUnknown(UnknownPlain("InvalidMinMaxInterval"))>>
    /\ exit_code = Some(3)
    /\ resolver_calls = 0
    /\ sent = <<>>

Verdicts == {"Ok", "Warning", "Critical"}

C25_RunWithoutThresholds ==
    /\ args # NoArgs
    /\ args.warning = None
    /\ args.critical = None
    /\ Exited
    /\ stdout = <<StatusUnknown(UnknownPlain("NoThresholds"))>>
    /\ exit_code = Some(3)
    /\ resolver_calls = 0

----------------------------------------------------------------------------
(* get_jitter called directly.                                             *)

GetJitterReturned == pc = "main_result"

\* C26: get_jitter called with fewer than 2 samples resolves the address
\* first; when the address resolves it returns InsufficientSamples(samples)
\* without drawing intervals (samples - 1 is not computed) and without
\* sending a probe, and when it does not resolve it returns the resolution
\* error.
C26_TooFewSamples ==
    args.samples < 2 =>
        /\ pc \in {"get_jitter", "get_durations", "main_result"}
        /\ sent = <<>>
        /\ generated = <<>>
        /\ intervals = <<>>
        /\ durations = <<>>
        /\ pc = "get_durations" => ip # None /\ result = Pending
        /\ GetJitterReturned =>
               result = IF ip # None
                        THEN Err(InsufficientSamples(args.samples))
                        ELSE IF answered # <<>> /\ answered[1].tag = "Ok"
                             THEN Err(DnsLookupFailed(args.host))
                             ELSE Err(DnsResolutionError(args.host))

C26_ZeroSamplesResolvedHost ==
    /\ args.samples = 0
    /\ args.host \in DomainNames
    /\ ip # None
    /\ GetJitterReturned
    /\ result = Err(InsufficientSamples(0))
    /\ resolver_calls = 1
    /\ sent = <<>>

\* C27: whatever get_jitter is called with, the aggregation is applied to
\* at least one delta: get_jitter never returns EmptyDeltas and never
\* panics in the Average division or the Median index, and a jitter it
\* returns comes from at least two durations.
C27_AggregationNeverEmpty ==
    /\ result.tag # "Panic"
    /\ result # Err(EmptyDeltas)
    /\ (pc = "loop" /\ i >= args.samples) => Len(durations) >= 2
    /\ (GetJitterReturned /\ result.tag = "Ok") =>
           /\ Len(durations) >= 2
           /\ calculate_deltas(durations).tag = "Ok"
           /\ Len(calculate_deltas(durations).value) >= 1

C27_OneDeltaMedian ==
    /\ GetJitterReturned
    /\ args.samples = 2
    /\ args.aggregation_method = "Median"
    /\ result.tag = "Ok"
    /\ Len(durations) = 2
    /\ Len(calculate_deltas(durations).value) = 1

----------------------------------------------------------------------------
(* The four aggregations of one delta list, compared.                      *)

Reordered(list) ==
    {[k \in 1..Len(list) |-> list[p[k]]] : p \in Permutations(1..Len(list))}

Aggregated(f, deltas) ==
    CASE f = "calculate_avg_jitter" -> calculate_avg_jitter(deltas)
      [] f = "calculate_median_jitter" -> calculate_median_jitter(deltas)
      [] f = "calculate_max_jitter" -> calculate_max_jitter(deltas)
      [] f = "calculate_min_jitter" -> calculate_min_jitter(deltas)

\* C28: for a non-empty delta list, Min <= Average <= Max and
\* Min <= Median <= Max; when all the deltas are equal the four are equal;
\* and the value an aggregation returned is the value it returns for every
\* reordering of the list.
C28_OrderedAndOrderFree ==
    (call.fn \in AggregationFns /\ Returned /\ call.deltas # <<>>) =>
        LET ds == call.deltas
            min == calculate_min_jitter(ds)
            avg == calculate_avg_jitter(ds)
            med == calculate_median_jitter(ds)
            max == calculate_max_jitter(ds)
        IN  /\ call.ret = Aggregated(call.fn, ds)
            /\ \A r \in {min, avg, med, max} : r.tag = "Ok"
            /\ min.value <= avg.value
            /\ avg.value <= max.value
            /\ min.value <= med.value
            /\ med.value <= max.value
            /\ (\A k \in 1..Len(ds) : ds[k] = ds[1]) =>
                   /\ min.value = as_millis_f64(ds[1])
                   /\ avg.value = min.value
                   /\ med.value = min.value
                   /\ max.value = min.value
            /\ \A other \in Reordered(ds) : Aggregated(call.fn, other) = call.ret

C28_MinOfUnsortedThree ==
    /\ call.fn = "calculate_min_jitter"
    /\ Returned
    /\ Len(call.deltas) = 3
    /\ call.deltas[1] > call.deltas[2]
    /\ call.deltas[3] > call.deltas[1]
    /\ call.ret = Ok(as_millis_f64(call.deltas[2]))
    /\ calculate_min_jitter(call.deltas).value < calculate_avg_jitter(call.deltas).value
    /\ calculate_median_jitter(call.deltas).value < calculate_max_jitter(call.deltas).value

====
